---- MODULE Spec2Model ----
(***************************************************************************)
(* Financial literacy simulator (src/main.py): class Person (the actor),   *)
(* class Simulation (the yearly driver) and main().                        *)
(*                                                                         *)
(* Number representation.  The program computes with binary floating       *)
(* point.  The model computes in fixed point: every balance is an integer  *)
(* number of cents, every rate is an integer number of thousandths, and a  *)
(* product with a rate is rounded down to the cent (MulDiv).  The wealth   *)
(* reported by calculate_wealth is an integer number of dollars, rounded   *)
(* half-to-even as Python's round() does.                                  *)
(***************************************************************************)
EXTENDS Integers, Sequences, FiniteSets, TLC

(***************************************************************************)
(* Module constants, src/main.py lines 3-23.  Amounts are in dollars,      *)
(* rates in thousandths (0.2 is 200, 0.045 is 45).                         *)
(***************************************************************************)
INITIAL_SAVINGS == 5000
INITIAL_DEBT == 30100
INITIAL_WEALTH == -25100
ANNUAL_SALARY == 59000
SAVINGS_PERCENT == 200
CHECKING_PERCENT == 300
TOTAL_PERCENT_AVAILABLE == SAVINGS_PERCENT + CHECKING_PERCENT
MONTHLY_RENT == 850
HOUSE_COST == 175000
FL_DOWN_PAYMENT_PERCENT == 200
NFL_DOWN_PAYMENT_PERCENT == 50
FL_MORTGAGE_INTEREST == 45
NFL_MORTGAGE_INTEREST == 50
MORTGAGE_YEARS == 30
SAVINGS_INTEREST_NFL == 10
SAVINGS_INTEREST_FL == 70
DEBT_INTEREST == 200
DEBT_MIN_PAYMENT_PERCENT == 30
FL_ADDITIONAL_DEBT_PAYMENT == 15
NFL_ADDITIONAL_DEBT_PAYMENT == 1
\* simulate(self, years=40): the default argument, used by main()
DEFAULT_YEARS == 40
\* for _ in range(12): the monthly loops of both payment methods
MONTHS == 12

(***************************************************************************)
(* Fixed-point arithmetic.                                                 *)
(***************************************************************************)
\* cents per dollar
Dollar == 10 * 10
\* denominator of a rate given in thousandths
RateDen == 10 * 10 * 10
\* scale of the compound factor (1 + i) ** n
PowScale == 10 ^ 8
\* scale of discount_factor
DfScale == 10 * 10 * 10

\* floor(x * p / q) for q > 0, p >= 0, without forming the product x * p
MulDiv(x, p, q) == (x \div q) * p + ((x % q) * p) \div q

\* Python round(): nearest integer number of dollars, ties to the even one
Round(c) ==
  LET q == c \div Dollar
      r == c % Dollar
  IN  IF 2 * r < Dollar THEN q
      ELSE IF 2 * r > Dollar THEN q + 1
      ELSE IF q % 2 = 0 THEN q ELSE q + 1

ANNUAL_CONTRIBUTION == MulDiv(ANNUAL_SALARY * Dollar, TOTAL_PERCENT_AVAILABLE, RateDen)

(***************************************************************************)
(* class Person.  A person is the record of its balances; the flag         *)
(* is_financially_literate (fl) is fixed at construction and is the key    *)
(* under which the person is stored.                                       *)
(***************************************************************************)
\* Person.__init__
NewPerson ==
  [savings |-> INITIAL_SAVINGS * Dollar, checking |-> 0,
   debt |-> INITIAL_DEBT * Dollar, loan |-> 0, has_house |-> FALSE]

\* the two savings rates taken the wrong way round
SavingsInterestSwapped(fl) == IF fl THEN SAVINGS_INTEREST_NFL ELSE SAVINGS_INTEREST_FL

SavingsInterest(fl) == IF fl THEN SAVINGS_INTEREST_FL ELSE SAVINGS_INTEREST_NFL

\* self.savings *= (1 + rate)
calculate_savings_balance_after_year(fl, p) ==
  [p EXCEPT !.savings = MulDiv(p.savings, RateDen + SavingsInterest(fl), RateDen)]

\* the two surcharges taken the wrong way round
AdditionalDebtPaymentSwapped(fl) ==
  (IF fl THEN NFL_ADDITIONAL_DEBT_PAYMENT ELSE FL_ADDITIONAL_DEBT_PAYMENT) * Dollar

AdditionalDebtPayment(fl) ==
  (IF fl THEN FL_ADDITIONAL_DEBT_PAYMENT ELSE NFL_ADDITIONAL_DEBT_PAYMENT) * Dollar

\* the payment left unclamped
ClampPaymentMissing(payment, debt) == payment

\* if payment > self.debt: payment = self.debt
ClampPayment(payment, debt) == IF payment > debt THEN debt ELSE payment

\* one month's payment of calculate_debt_balance_after_year
DebtPayment(fl, debt) ==
  LET min_payment == MulDiv(debt, DEBT_MIN_PAYMENT_PERCENT, RateDen)
  IN  ClampPayment(min_payment + AdditionalDebtPayment(fl), debt)

\* one iteration of the loop body: debt and checking both lose the payment
DebtMonthBody(fl, p) ==
  [p EXCEPT !.debt = p.debt - DebtPayment(fl, p.debt),
            !.checking = p.checking - DebtPayment(fl, p.debt)]

\* after the loop: if self.debt > 0: self.debt *= (1 + DEBT_INTEREST)
DebtYearEnd(p) ==
  IF p.debt > 0
    THEN [p EXCEPT !.debt = MulDiv(p.debt, RateDen + DEBT_INTEREST, RateDen)]
    ELSE p

subtract_rent_payment_from_checking(p) ==
  [p EXCEPT !.checking = p.checking - MONTHLY_RENT * MONTHS * Dollar]

DownPaymentPercent(fl) == IF fl THEN FL_DOWN_PAYMENT_PERCENT ELSE NFL_DOWN_PAYMENT_PERCENT

\* down_payment = HOUSE_COST * <percent>
DownPayment(fl) == MulDiv(HOUSE_COST * Dollar, DownPaymentPercent(fl), RateDen)

can_afford_down_payment(fl, p) == p.checking >= DownPayment(fl)

\* buy_house forgetting self.has_house = True
BuyHouseForgetsFlag(fl, p) ==
  [p EXCEPT !.checking = p.checking - DownPayment(fl),
            !.loan = HOUSE_COST * Dollar - DownPayment(fl)]

\* buy_house lending the whole price
BuyHouseFullLoan(fl, p) ==
  [p EXCEPT !.checking = p.checking - DownPayment(fl),
            !.loan = HOUSE_COST * Dollar,
            !.has_house = TRUE]

\* buy_house not taking the down payment out of checking
BuyHouseKeepsChecking(fl, p) ==
  [p EXCEPT !.loan = HOUSE_COST * Dollar - DownPayment(fl),
            !.has_house = TRUE]

buy_house(fl, p) ==
  [p EXCEPT !.checking = p.checking - DownPayment(fl),
            !.loan = HOUSE_COST * Dollar - DownPayment(fl),
            !.has_house = TRUE]

MortgageInterest(fl) == IF fl THEN FL_MORTGAGE_INTEREST ELSE NFL_MORTGAGE_INTEREST

\* x * i, with i = <annual rate> / 12
TimesMonthlyRate(fl, x) == MulDiv(x, MortgageInterest(fl), MONTHS * RateDen)

\* a * b for two numbers scaled by PowScale, rounded down (PowScale is the
\* square of PowHalf, and the operands are split at PowHalf)
PowHalf == 10 ^ 4
MulScaled(a, b) ==
  LET ah == a \div PowHalf
      al == a % PowHalf
      bh == b \div PowHalf
      bl == b % PowHalf
  IN  ah * bh + (ah * bl + al * bh + (al * bl) \div PowHalf) \div PowHalf

\* x ** k for x scaled by PowScale, by repeated squaring
RECURSIVE Power(_, _)
Power(x, k) ==
  IF k = 0 THEN PowScale
  ELSE IF k % 2 = 0
    THEN LET h == Power(x, k \div 2) IN MulScaled(h, h)
    ELSE MulScaled(x, Power(x, k - 1))

\* (1 + i) ** k, scaled by PowScale
Compound(fl, k) == Power(PowScale + TimesMonthlyRate(fl, PowScale), k)

\* discount_factor = ((1 + i) ** n - 1) / (i * (1 + i) ** n), scaled by DfScale
discount_factor(fl) ==
  LET n == MORTGAGE_YEARS * MONTHS
      c == Compound(fl, n)
  IN  MulDiv(c - PowScale, DfScale, TimesMonthlyRate(fl, c))

\* monthly_payment = self.loan / discount_factor
MonthlyPayment(fl, loan) == MulDiv(loan, DfScale, discount_factor(fl))

\* the early return of subtract_mortgage_payment_from_checking
MortgageNoOp(p) == ~p.has_house \/ p.loan <= 0

\* principal_payment of one month, clamped to the remaining loan
PrincipalPayment(fl, loan, monthly_payment) ==
  LET principal_payment == monthly_payment - TimesMonthlyRate(fl, loan)
  IN  IF principal_payment > loan THEN loan ELSE principal_payment

\* one iteration of the mortgage loop body
MortgageMonthBody(fl, p, monthly_payment) ==
  LET interest_payment == TimesMonthlyRate(fl, p.loan)
      principal_payment == PrincipalPayment(fl, p.loan, monthly_payment)
      paid == IF monthly_payment - interest_payment > p.loan
                THEN principal_payment + interest_payment
                ELSE monthly_payment
  IN  [p EXCEPT !.loan = p.loan - principal_payment,
                !.checking = p.checking - paid]

\* savings + checking - debt - loan, in cents, before rounding
RawWealth(p) == p.savings + p.checking - p.debt - p.loan

calculate_wealth(p) == Round(RawWealth(p))

(***************************************************************************)
(* State.                                                                  *)
(*   person[fl], sim[fl]   the two Person objects and the counters of the  *)
(*                         Simulation object that owns each                *)
(*   pc                    where control is; "idle" is outside every call  *)
(*   active                the flag of the person the running call is on   *)
(*   years, year, wealth_history       locals of Simulation.simulate       *)
(*   month, total_payment, monthly_payment   locals of the two payment     *)
(*                         methods; caller says who gets control back      *)
(*   result[fl]            what the last call of simulate on sim[fl]       *)
(*                         handed back to its caller                       *)
(* History variables (written, never read by an action's guard):           *)
(*   entry                 the person and counters as simulate found them  *)
(*   log[fl]               one record per simulated year                   *)
(*   debt_call[fl]         the last call of calculate_debt_balance_after_  *)
(*                         year: balances before, return value, debt after *)
(*   calls                 number of calls made from outside               *)
(***************************************************************************)
VARIABLES person, sim, pc, active, years, year, wealth_history,
          month, total_payment, monthly_payment, caller, result,
          entry, log, debt_call, calls

vars == <<person, sim, pc, active, years, year, wealth_history,
          month, total_payment, monthly_payment, caller, result,
          entry, log, debt_call, calls>>

frameVars == <<years, year, wealth_history>>
methodVars == <<month, total_payment, monthly_payment, caller>>

\* Simulation.__init__
NewSimulation == [years_in_debt |-> 0, years_rented |-> 0, total_debt_paid |-> 0]

NoResult == [kind |-> "none", value |-> <<>>]
NoDebtCall == [done |-> FALSE, debt0 |-> 0, checking0 |-> 0, total |-> 0, debt1 |-> 0]

InitRest ==
  /\ sim = [fl \in BOOLEAN |-> NewSimulation]
  /\ pc = "idle"
  /\ active = TRUE
  /\ years = 0
  /\ year = 0
  /\ wealth_history = <<>>
  /\ month = 0
  /\ total_payment = 0
  /\ monthly_payment = 0
  /\ caller = "none"
  /\ result = [fl \in BOOLEAN |-> NoResult]
  /\ entry = [person |-> NewPerson, sim |-> NewSimulation]
  /\ log = [fl \in BOOLEAN |-> <<>>]
  /\ debt_call = [fl \in BOOLEAN |-> NoDebtCall]
  /\ calls = 0

\* fl_person = Person(True); nfl_person = Person(False), each with its Simulation
Init ==
  /\ person = [fl \in BOOLEAN |-> NewPerson]
  /\ InitRest

(***************************************************************************)
(* Simulation.simulate                                                     *)
(***************************************************************************)
\* wealth_history = [self.person.calculate_wealth()]
InitialHistory(p) == <<calculate_wealth(p)>>

\* range(1, years + 2): one year too many
RangeContinuesOffByOne(yr, n) == yr <= n

\* for year in range(1, years + 1): year is the last value the loop took
RangeContinues(yr, n) == yr < n

\* the two contributions of a year, added before anything else
Contribute(p) ==
  [p EXCEPT !.savings = p.savings
                + MulDiv(ANNUAL_CONTRIBUTION, SAVINGS_PERCENT, TOTAL_PERCENT_AVAILABLE),
            !.checking = p.checking
                + MulDiv(ANNUAL_CONTRIBUTION, CHECKING_PERCENT, TOTAL_PERCENT_AVAILABLE)]

\* the test looking at the debt alone
InDebtDebtOnly(p) == p.debt > 0

\* if self.person.debt > 0 or self.person.loan > 0
InDebt(p) == p.debt > 0 \/ p.loan > 0

\* the branch not looking at has_house
TakesRentBranchAlways(p) == TRUE

\* if not self.person.has_house
TakesRentBranch(p) == ~p.has_house

\* entry of simulate(years)
simulate(fl, n) ==
  /\ pc = "idle"
  /\ pc' = "for_year"
  /\ active' = fl
  /\ years' = n
  /\ year' = 0
  /\ wealth_history' = InitialHistory(person[fl])
  /\ entry' = [person |-> person[fl], sim |-> sim[fl]]
  /\ UNCHANGED <<person, sim, methodVars, result, log, debt_call>>

\* entry of calculate_debt_balance_after_year on person p of flag fl
DebtEnter(fl, p, who) ==
  /\ month' = 0
  /\ total_payment' = 0
  /\ caller' = who
  /\ pc' = "debt_loop"
  /\ debt_call' = [debt_call EXCEPT ![fl] =
        [done |-> FALSE, debt0 |-> p.debt, checking0 |-> p.checking,
         total |-> 0, debt1 |-> 0]]
  /\ UNCHANGED monthly_payment

\* a year begins: contributions, savings interest, the call of the debt method
ForYear ==
  /\ pc = "for_year"
  /\ RangeContinues(year, years)
  /\ year' = year + 1
  /\ LET p == calculate_savings_balance_after_year(active, Contribute(person[active]))
     IN  /\ person' = [person EXCEPT ![active] = p]
         /\ DebtEnter(active, p, "simulate")
  /\ UNCHANGED <<sim, active, years, wealth_history, result, entry, log, calls>>

\* return wealth_history
SimulateReturn ==
  /\ pc = "for_year"
  /\ ~RangeContinues(year, years)
  /\ result' = [result EXCEPT ![active] = [kind |-> "returned", value |-> wealth_history]]
  /\ pc' = "idle"
  /\ UNCHANGED <<person, sim, active, frameVars, methodVars, entry, log, debt_call, calls>>

\* one month of the debt loop
DebtLoopMonth ==
  /\ pc = "debt_loop"
  /\ month < MONTHS
  /\ person[active].debt > 0
  /\ total_payment' = total_payment + DebtPayment(active, person[active].debt)
  /\ person' = [person EXCEPT ![active] = DebtMonthBody(active, @)]
  /\ month' = month + 1
  /\ UNCHANGED <<sim, pc, active, frameVars, monthly_payment, caller, result,
                 entry, log, debt_call, calls>>

\* the debt loop ends (12 months done, or the break): interest, return total_payment
DebtLoopExit ==
  /\ pc = "debt_loop"
  /\ month >= MONTHS \/ person[active].debt <= 0
  /\ person' = [person EXCEPT ![active] = DebtYearEnd(@)]
  /\ debt_call' = [debt_call EXCEPT ![active] =
        [@ EXCEPT !.done = TRUE, !.total = total_payment,
                  !.debt1 = DebtYearEnd(person[active]).debt]]
  /\ pc' = IF caller = "simulate" THEN "after_debt" ELSE "idle"
  /\ UNCHANGED <<sim, active, frameVars, methodVars, result, entry, log, calls>>

\* self.total_debt_paid += debt_payment; the years_in_debt test
AfterDebt ==
  /\ pc = "after_debt"
  /\ sim' = [sim EXCEPT ![active] =
        [@ EXCEPT !.total_debt_paid = @ + total_payment,
                  !.years_in_debt = IF InDebt(person[active]) THEN @ + 1 ELSE @]]
  /\ log' = [log EXCEPT ![active] = Append(@,
        [debt_mid |-> person[active].debt, loan_mid |-> person[active].loan,
         house_mid |-> person[active].has_house,
         rent |-> FALSE, mortgage |-> FALSE, bought |-> FALSE,
         closed |-> FALSE, debt_end |-> 0, loan_end |-> 0])]
  /\ pc' = "branch"
  /\ UNCHANGED <<person, active, frameVars, methodVars, result, entry, debt_call, calls>>

\* the last record of log[fl] with some fields changed
Logged(fl, change) == [log EXCEPT ![fl] = [@ EXCEPT ![Len(@)] = change]]

\* the branch without a house: count the year, pay rent, buy if affordable
RentBranch ==
  /\ pc = "branch"
  /\ TakesRentBranch(person[active])
  /\ sim' = [sim EXCEPT ![active] = [@ EXCEPT !.years_rented = @ + 1]]
  /\ LET p == subtract_rent_payment_from_checking(person[active])
         buys == can_afford_down_payment(active, p)
     IN  /\ person' = [person EXCEPT ![active] = IF buys THEN buy_house(active, p) ELSE p]
         /\ log' = Logged(active, [log[active][Len(log[active])]
                                     EXCEPT !.rent = TRUE, !.bought = buys])
  /\ pc' = "append"
  /\ UNCHANGED <<active, frameVars, methodVars, result, entry, debt_call, calls>>

\* entry of subtract_mortgage_payment_from_checking on person p of flag fl
MortgageEnter(fl, p, who) ==
  /\ caller' = who
  /\ IF MortgageNoOp(p)
       THEN /\ pc' = IF who = "simulate" THEN "append" ELSE "idle"
            /\ UNCHANGED <<month, monthly_payment>>
       ELSE /\ pc' = "mortgage_loop"
            /\ month' = 0
            /\ monthly_payment' = MonthlyPayment(fl, p.loan)
  /\ UNCHANGED total_payment

\* the branch with a house: the call of the mortgage method
MortgageBranch ==
  /\ pc = "branch"
  /\ ~TakesRentBranch(person[active])
  /\ MortgageEnter(active, person[active], "simulate")
  /\ log' = Logged(active, [log[active][Len(log[active])] EXCEPT !.mortgage = TRUE])
  /\ UNCHANGED <<person, sim, active, frameVars, result, entry, debt_call, calls>>

\* one month of the mortgage loop
MortgageLoopMonth ==
  /\ pc = "mortgage_loop"
  /\ month < MONTHS
  /\ person[active].loan > 0
  /\ person' = [person EXCEPT ![active] = MortgageMonthBody(active, @, monthly_payment)]
  /\ month' = month + 1
  /\ UNCHANGED <<sim, pc, active, frameVars, total_payment, monthly_payment, caller,
                 result, entry, log, debt_call, calls>>

\* the mortgage loop ends (12 months done, or the break)
MortgageLoopExit ==
  /\ pc = "mortgage_loop"
  /\ month >= MONTHS \/ person[active].loan <= 0
  /\ pc' = IF caller = "simulate" THEN "append" ELSE "idle"
  /\ UNCHANGED <<person, sim, active, frameVars, methodVars, result, entry, log,
                 debt_call, calls>>

\* wealth_history.append(self.person.calculate_wealth())
AppendWealth ==
  /\ pc = "append"
  /\ wealth_history' = Append(wealth_history, calculate_wealth(person[active]))
  /\ log' = Logged(active, [log[active][Len(log[active])]
                              EXCEPT !.closed = TRUE,
                                     !.debt_end = person[active].debt,
                                     !.loan_end = person[active].loan])
  /\ pc' = "for_year"
  /\ UNCHANGED <<person, sim, active, years, year, methodVars, result, entry,
                 debt_call, calls>>

\* the steps every call is made of
Steps ==
  \/ ForYear
  \/ SimulateReturn
  \/ DebtLoopMonth
  \/ DebtLoopExit
  \/ AfterDebt
  \/ RentBranch
  \/ MortgageBranch
  \/ MortgageLoopMonth
  \/ MortgageLoopExit
  \/ AppendWealth

(***************************************************************************)
(* Spec: one Simulation, run by its owner any number of times.             *)
(***************************************************************************)
\* the largest years argument tried, next to -1 and 0
MaxYears == 3
\* no call is made that would take a simulation past this many years
MaxElapsed == 40

\* a call of simulate from outside; the other Simulation is left alone
Run ==
  /\ \E fl \in BOOLEAN, n \in -1 .. MaxYears :
        /\ result[~fl].kind = "none"
        /\ Len(log[fl]) + n <= MaxElapsed
        /\ simulate(fl, n)
  /\ UNCHANGED calls

Next == Run \/ Steps

Spec == Init /\ [][Next]_vars

(***************************************************************************)
(* SpecMain: main().  The literate person's simulation runs the default    *)
(* number of years, then the other person's.                               *)
(***************************************************************************)
\* fl_wealth_history = fl_simulation.simulate()
MainSimulateFL ==
  /\ result[TRUE].kind = "none"
  /\ result[FALSE].kind = "none"
  /\ simulate(TRUE, DEFAULT_YEARS)
  /\ UNCHANGED calls

\* nfl_wealth_history = nfl_simulation.simulate()
MainSimulateNFL ==
  /\ result[TRUE].kind = "returned"
  /\ result[FALSE].kind = "none"
  /\ simulate(FALSE, DEFAULT_YEARS)
  /\ UNCHANGED calls

NextMain == MainSimulateFL \/ MainSimulateNFL \/ Steps

SpecMain == Init /\ [][NextMain]_vars

(***************************************************************************)
(* SpecOps: the public operations of Person and Simulation called in any   *)
(* order, on persons whose balances were assigned after construction (as   *)
(* run_tests does: test_fl.debt = 1000, test_buy_fl.checking = 50000,      *)
(* test_mortgage_fl.has_house = True with loan = 10000, ...).  Both        *)
(* persons start from the same balances.                                   *)
(***************************************************************************)
\* number of calls made from outside in one behaviour
MaxOps == 2
\* the largest years argument of simulate tried here, next to -1 and 0
MaxOpYears == 1

StartDebts == {0, 1, 10 * Dollar, 1000 * Dollar, INITIAL_DEBT * Dollar}
StartCheckings == {0, 5000 * Dollar, 50000 * Dollar}
StartLoans == {0, 10000 * Dollar}

StartPersons ==
  {[NewPerson EXCEPT !.debt = d, !.checking = c, !.loan = l, !.has_house = h] :
     d \in StartDebts, c \in StartCheckings,
     l \in StartLoans, h \in BOOLEAN}

InitOps ==
  /\ \E p \in StartPersons : person = [fl \in BOOLEAN |-> p]
  /\ InitRest

\* a call from outside is made when nothing runs and the budget allows
MayCall ==
  /\ pc = "idle"
  /\ calls < MaxOps
  /\ calls' = calls + 1

OpSimulate ==
  /\ MayCall
  /\ \E fl \in BOOLEAN, n \in -1 .. MaxOpYears : simulate(fl, n)

OpSavings ==
  /\ MayCall
  /\ \E fl \in BOOLEAN :
        person' = [person EXCEPT ![fl] = calculate_savings_balance_after_year(fl, @)]
  /\ UNCHANGED <<sim, pc, active, frameVars, methodVars, result, entry, log, debt_call>>

OpDebt ==
  /\ MayCall
  /\ \E fl \in BOOLEAN :
        /\ active' = fl
        /\ DebtEnter(fl, person[fl], "direct")
  /\ UNCHANGED <<person, sim, frameVars, result, entry, log>>

OpRent ==
  /\ MayCall
  /\ \E fl \in BOOLEAN :
        person' = [person EXCEPT ![fl] = subtract_rent_payment_from_checking(@)]
  /\ UNCHANGED <<sim, pc, active, frameVars, methodVars, result, entry, log, debt_call>>

\* buy_house called on person fl
BuyCall(fl) ==
  /\ MayCall
  /\ person' = [person EXCEPT ![fl] = buy_house(fl, @)]
  /\ UNCHANGED <<sim, pc, active, frameVars, methodVars, result, entry, log, debt_call>>

OpBuy == \E fl \in BOOLEAN : BuyCall(fl)

OpMortgage ==
  /\ MayCall
  /\ \E fl \in BOOLEAN :
        /\ active' = fl
        /\ MortgageEnter(fl, person[fl], "direct")
  /\ UNCHANGED <<person, sim, frameVars, result, entry, log, debt_call>>

NextOps ==
  \/ OpSimulate
  \/ OpSavings
  \/ OpDebt
  \/ OpRent
  \/ OpBuy
  \/ OpMortgage
  \/ Steps

SpecOps == InitOps /\ [][NextOps]_vars

(***************************************************************************)
(* Properties.                                                             *)
(***************************************************************************)
Last(h) == h[Len(h)]

\* a call of simulate has returned to its caller, and nothing ran since
Returned == pc = "idle" /\ result[active].kind = "returned"

\* the years of log[fl] that satisfy a test on the year's record
YearsWhere(fl, Test(_)) == {k \in 1 .. Len(log[fl]) : Test(log[fl][k])}

\* C1: simulate(years) with years >= 0 returns years + 1 entries, the first
\* being the wealth the person had when the call was made (-25100 when no
\* year had been simulated before); simulate(0) returns that one entry and
\* leaves the person's balances and the three counters as they were.
C1_TrajectoryLength ==
  (Returned /\ years >= 0) =>
    LET h == result[active].value
    IN  /\ Len(h) = years + 1
        /\ h[1] = Round(entry.person.savings + entry.person.checking
                        - entry.person.debt - entry.person.loan)
        /\ (Len(log[active]) = years => h[1] = INITIAL_WEALTH)
        /\ (years = 0 => /\ person[active] = entry.person
                         /\ sim[active] = entry.sim)

\* a second call, of two years, has returned
C1_Witness ==
  /\ Returned
  /\ years = 2
  /\ Len(log[active]) > years
  /\ Len(result[active].value) = 3

\* C2: simulate(years) with years < 0 ends in an invalid-argument outcome
\* and returns no trajectory.
C2_NegativeYearsRejected ==
  (pc = "idle" /\ years < 0) => result[active].kind = "invalid_argument"

\* C3: debt and loan are never negative, in any state, the months inside
\* the two payment loops included.
C3_DebtAndLoanNonNegative ==
  \A fl \in BOOLEAN : person[fl].debt >= 0 /\ person[fl].loan >= 0

\* inside the debt loop, a clamped payment has just brought the debt to 0
C3_Witness ==
  /\ pc = "debt_loop"
  /\ month > 0
  /\ month < MONTHS
  /\ debt_call[active].debt0 > AdditionalDebtPayment(active)
  /\ person[active].debt = 0

\* C4: loan is nonzero only when has_house is true.
C4_LoanOnlyWithHouse ==
  \A fl \in BOOLEAN : person[fl].loan # 0 => person[fl].has_house

\* years without a house and without a loan, then a house and a loan
C4_Witness ==
  \E fl \in BOOLEAN :
    /\ person[fl].has_house
    /\ person[fl].loan > 0
    /\ sim[fl].years_rented > 1
    /\ \A k \in 1 .. Len(log[fl]) : ~log[fl][k].house_mid => log[fl][k].loan_mid = 0

DebtAtYearEnd(e) == e.debt_end > 0 \/ e.loan_end > 0
DebtAfterService(e) == e.debt_mid > 0 \/ e.loan_mid > 0

\* C5 as stated: after simulate, years_in_debt is the number of simulated
\* years at whose end debt > 0 or loan > 0.
C5_CountsYearEnd ==
  pc = "idle" =>
    \A fl \in BOOLEAN :
      sim[fl].years_in_debt = Cardinality(YearsWhere(fl, DebtAtYearEnd))

\* C5 as amended: years_in_debt is the number of simulated years in which
\* debt > 0 or loan > 0 right after the year's debt payments, before the
\* rent, purchase or mortgage step of that year.
C5_CountsAfterDebtService ==
  pc = "idle" =>
    \A fl \in BOOLEAN :
      sim[fl].years_in_debt = Cardinality(YearsWhere(fl, DebtAfterService))

\* a year in which the house was bought free of debt: it ends with a loan
\* and was not counted
C5_Witness ==
  /\ pc = "idle"
  /\ \E fl \in BOOLEAN :
       /\ Len(log[fl]) = 1
       /\ log[fl][1].bought
       /\ log[fl][1].loan_end > 0
       /\ sim[fl].years_in_debt = 0

\* C6: from equal debt and checking the literate person's call of
\* calculate_debt_balance_after_year returns at least what the other
\* person's call returns; and a call that starts with debt > 0 ends with a
\* strictly smaller debt.
C6_DebtService ==
  /\ \A fl \in BOOLEAN :
       (debt_call[fl].done /\ debt_call[fl].debt0 > 0)
          => debt_call[fl].debt1 < debt_call[fl].debt0
  /\ ( /\ debt_call[TRUE].done
       /\ debt_call[FALSE].done
       /\ debt_call[TRUE].debt0 = debt_call[FALSE].debt0
       /\ debt_call[TRUE].checking0 = debt_call[FALSE].checking0 )
     => debt_call[TRUE].total >= debt_call[FALSE].total

\* both persons have made the call from the same positive debt
C6_Witness ==
  /\ debt_call[TRUE].done
  /\ debt_call[FALSE].done
  /\ debt_call[TRUE].debt0 = debt_call[FALSE].debt0
  /\ debt_call[TRUE].checking0 = debt_call[FALSE].checking0
  /\ debt_call[TRUE].debt0 = 1000 * Dollar
  /\ debt_call[TRUE].total > debt_call[FALSE].total
  /\ debt_call[FALSE].debt1 > debt_call[TRUE].debt1

\* both calls of main() have returned
MainDone ==
  pc = "idle" /\ result[TRUE].kind = "returned" /\ result[FALSE].kind = "returned"

\* C7: after 40 years the literate person's last wealth is strictly greater
\* than the other person's.
C7_LiterateEndsRicher ==
  MainDone => Last(result[TRUE].value) > Last(result[FALSE].value)

C7_Witness ==
  /\ MainDone
  /\ Len(result[TRUE].value) = DEFAULT_YEARS + 1
  /\ Len(result[FALSE].value) = DEFAULT_YEARS + 1

\* the loan a purchase leaves: HOUSE_COST * (1 - down payment fraction)
PurchaseLoan(fl) == MulDiv(HOUSE_COST * Dollar, RateDen - DownPaymentPercent(fl), RateDen)

\* C8: every simulated year pays exactly one of rent and mortgage, rent if
\* and only if the person had no house when the branch was taken; the year
\* of the purchase pays rent and no mortgage and ends with the loan at
\* exactly HOUSE_COST * (1 - down payment fraction); the mortgage is first
\* paid in the year after.
C8_RentOrMortgage ==
  \A fl \in BOOLEAN : \A k \in 1 .. Len(log[fl]) :
    LET e == log[fl][k]
    IN  e.closed =>
          /\ e.rent # e.mortgage
          /\ e.rent = ~e.house_mid
          /\ e.rent => e.loan_mid = 0
          /\ (e.rent /\ ~e.bought) => e.loan_end = 0
          /\ e.mortgage => e.loan_end < e.loan_mid
          /\ e.bought =>
               /\ e.rent
               /\ e.loan_end = PurchaseLoan(fl)
               /\ \A j \in 1 .. k : ~log[fl][j].mortgage
               /\ (k < Len(log[fl]) /\ log[fl][k + 1].closed)
                    => /\ log[fl][k + 1].mortgage
                       /\ log[fl][k + 1].loan_mid = PurchaseLoan(fl)

\* the year after the purchase is over
C8_Witness ==
  \E fl \in BOOLEAN : \E k \in 1 .. Len(log[fl]) - 1 :
    /\ log[fl][k].bought
    /\ log[fl][k + 1].closed
    /\ log[fl][k + 1].loan_end < PurchaseLoan(fl)

Purchases(e) == e.bought

\* C9: has_house never goes from true to false, buy_house runs at most once
\* for a person, and years_rented does not grow once the person has a house.
C9_HouseBoughtOnce ==
  [][\A fl \in BOOLEAN :
       /\ person[fl].has_house => person'[fl].has_house
       /\ person[fl].has_house => sim'[fl].years_rented = sim[fl].years_rented
       /\ Cardinality({k \in 1 .. Len(log'[fl]) : log'[fl][k].bought}) <= 1]_vars

\* three simulate calls later the person still has the house bought once
C9_Witness ==
  \E fl \in BOOLEAN :
    /\ person[fl].has_house
    /\ Cardinality(YearsWhere(fl, Purchases)) = 1
    /\ Len(log[fl]) > sim[fl].years_rented + 2 * MaxYears
    /\ sim[fl].years_rented > 0

\* what C10 says one call of buy_house does to person fl
BuyEffect(fl) ==
  /\ RawWealth(person'[fl]) = RawWealth(person[fl]) - HOUSE_COST * Dollar
  /\ person'[fl].checking
       = person[fl].checking - MulDiv(HOUSE_COST * Dollar, DownPaymentPercent(fl), RateDen)
  /\ person'[fl].loan = PurchaseLoan(fl)
  /\ person'[fl].savings = person[fl].savings
  /\ person'[fl].debt = person[fl].debt

\* C10 as stated: from any balances, buy_house lowers the unrounded wealth
\* by exactly HOUSE_COST.
C10_BuyLowersWealthAnyBalances ==
  [][\A fl \in BOOLEAN : BuyCall(fl) => BuyEffect(fl)]_vars

\* C10 as amended: from any balances with loan = 0, buy_house lowers the
\* unrounded wealth by exactly HOUSE_COST.
C10_BuyLowersWealthNoLoan ==
  [][\A fl \in BOOLEAN : (BuyCall(fl) /\ person[fl].loan = 0) => BuyEffect(fl)]_vars

\* buy_house has been called once on a person without house or loan
C10_Witness ==
  /\ pc = "idle"
  /\ calls = 1
  /\ \E fl \in BOOLEAN :
       /\ person[fl].has_house
       /\ person[fl].loan = PurchaseLoan(fl)
       /\ ~person[~fl].has_house
       /\ person[~fl].loan = 0
       /\ log[fl] = <<>>

====
